---- MODULE Spec2Model ----
(***************************************************************************)
(* Lead classification automation: the bounded-concurrency batch pipeline  *)
(* (deduplicate -> classify -> persist -> deliver) and its concurrency     *)
(* limiter, runWithConcurrency.                                            *)
(*                                                                         *)
(* A run is one execution of main().  Each run is a single JavaScript      *)
(* control flow: an action below is one synchronous stretch of code, from  *)
(* one await (or the start) to the next.  The store (the "leads" table) is *)
(* shared by all runs.                                                     *)
(***************************************************************************)
EXTENDS Integers, Sequences, FiniteSets, TLC

VARIABLES run, store

vars == <<run, store>>

----------------------------------------------------------------------------
(* Bounds of the model *)

MaxLeads == 2
MaxItems == 4
MaxK == 3
\* leads in the file that two compared runs read
PairLeads == 1
\* leads in the file of each of two runs at the same time
RaceLeads == 2
\* the sizes for the check of termination: leads in the file, items and K
\* of a call of the limiter
FairLeads == 1
FairItems == 3
FairK == 2
\* leads in the file of the sequential pipeline
SequentialLeads == 2

(* Program constants *)

CONCURRENCY == 5

----------------------------------------------------------------------------
(* Input domains *)

Runs == {1, 2}

Emails == {"a@x.io", "b@x.io"}

\* the emails the table may hold before the first run
StoredBefore == {"a@x.io"}

ItemVals == {"u", "v"}

Outs == {0, 1}

\* How a call of a generic fn can end: resolved with a value, or rejected
Outcomes == {[rejects |-> FALSE, out |-> o] : o \in Outs} \cup {[rejects |-> TRUE, out |-> 0]}

\* A CSV row.  Row stands for the fields other than Email (names, job
\* title, company, phone), which tell two rows of one email apart.
Lead(e, k) == [Email |-> e, Row |-> k]

Batches(n) == {[k \in 1..n |-> Lead(es[k], k)] : es \in [1..n -> Emails]}

\* a file of three leads with three emails, as sample_leads.csv holds them
SampleLeads == <<Lead("a@x.io", 1), Lead("b@x.io", 2), Lead("c@x.io", 3)>>

CsvFiles == UNION {Batches(n) : n \in 0..MaxLeads} \cup {SampleLeads}

----------------------------------------------------------------------------
(* Text of a classification response.  A text is a sequence of symbols:    *)
(* the word "Persona", a blank, a digit, or "x" for any other character.   *)

Persona(d) == <<"Persona", " ", d>>

Personas == {Persona("1"), Persona("2"), Persona("3"), Persona("4")}

RECURSIVE TrimStart(_)
TrimStart(t) ==
    IF t # <<>> /\ Head(t) = " " THEN TrimStart(Tail(t)) ELSE t

RECURSIVE TrimEnd(_)
TrimEnd(t) ==
    IF t # <<>> /\ t[Len(t)] = " " THEN TrimEnd(SubSeq(t, 1, Len(t) - 1)) ELSE t

\* String.prototype.trim
Trim(t) == TrimEnd(TrimStart(t))

\* classification.match(/Persona [1-4]/): the pattern is not anchored
Match(t) ==
    \E p \in 1..(Len(t) - 2) :
        /\ t[p] = "Persona"
        /\ t[p + 1] = " "
        /\ t[p + 2] \in {"1", "2", "3", "4"}

\* What anthropic.messages.create can do: answer with a text, answer with
\* no content block (message.content[0] is undefined), or throw.
ResponseTexts ==
    { Persona("1"), Persona("2"), Persona("3"), Persona("4"),
      <<" ">> \o Persona("2") \o <<" ">>,
      Persona("1") \o <<" ", "x">>,
      Persona("5"),
      <<"x">> }

Responses ==
    {[kind |-> "text", text |-> t] : t \in ResponseTexts}
        \cup {[kind |-> "absent", text |-> <<>>], [kind |-> "throw", text |-> <<>>]}

\* classifyLead, from the response on
\* the catch returns the first persona in place of the last
ClassifyLeadCatchReturnsFirst(resp) ==
    IF resp.kind # "text"
    THEN Persona("1")
    ELSE LET classification == Trim(resp.text)
         IN  IF ~Match(classification) THEN Persona("4") ELSE classification

ClassifyLead(resp) ==
    IF resp.kind # "text"
    THEN Persona("4")
    ELSE LET classification == Trim(resp.text)
         IN  IF ~Match(classification) THEN Persona("4") ELSE classification

----------------------------------------------------------------------------
(* The webhook *)

WebhookResponses ==
    {[kind |-> "status", status |-> s] : s \in {200, 201, 204, 500}}
        \cup {[kind |-> "throw", status |-> 0]}

\* axios rejects a response whose status is not 2xx; the callback counts a
\* success for 200 and 201 only.
DeliveredAny2xx(resp) ==
    resp.kind = "status" /\ resp.status \in 200..299

Delivered(resp) ==
    /\ resp.kind = "status"
    /\ resp.status >= 200 /\ resp.status < 300
    /\ resp.status = 200 \/ resp.status = 201

Payload(c) == [email |-> c.lead.Email, row |-> c.lead.Row, persona |-> c.persona]

----------------------------------------------------------------------------
(* The store: the table "leads", email UNIQUE *)

NotContacted == "Not Contacted"

StoredRow(c) ==
    [email |-> c.lead.Email, row |-> c.lead.Row, persona |-> c.persona,
     lead_status |-> NotContacted]

ExistingRow(e) ==
    [email |-> e, row |-> 0, persona |-> Persona("4"), lead_status |-> "Contacted"]

InitialStores == {{ExistingRow(e) : e \in es} : es \in SUBSET StoredBefore}

StoreEmails == {row.email : row \in store}

\* select email from leads where email in (emails)
SelectIn(emails) == {e \in StoreEmails : \E k \in 1..Len(emails) : emails[k] = e}

\* a constraint that looks at the rows of the insert only
UniqueViolationInBatchOnly(rows) ==
    \E k, l \in 1..Len(rows) : k # l /\ rows[k].email = rows[l].email

\* A bulk insert breaks the UNIQUE constraint when a row's email is stored
\* already or two of its rows share an email.
UniqueViolation(rows) ==
    \/ \E k \in 1..Len(rows) : rows[k].email \in StoreEmails
    \/ \E k, l \in 1..Len(rows) : k # l /\ rows[k].email = rows[l].email

----------------------------------------------------------------------------
(* State of one run *)

\* What a run of the sequential pipeline (src/src/index.js) keeps: the loop
\* index i, the persona of the lead in hand, the results object of main,
\* and, as history, the calls made (calls) and what became of each lead
\* (facts).
NewIndex ==
    [ i |-> 0, persona |-> <<>>,
      results |-> [processed |-> 0, skipped |-> 0, failed |-> 0,
                   byPersona |-> [counts |-> [q \in Personas |-> 0], nan |-> {}]],
      calls |-> <<>>, facts |-> <<>> ]

NoOp == [st |-> "unstarted", val |-> <<>>, n |-> 0, resp |-> <<>>]

NewRun(pc, csv) ==
    [ pc |-> pc, csv |-> csv, exitCode |-> 0,
      \* main and the stages
      leads |-> <<>>, newLeads |-> <<>>, duplicateCount |-> 0,
      classifiedLeads |-> <<>>, dbResult |-> <<>>,
      successCount |-> 0, failCount |-> 0, summary |-> <<>>,
      \* runWithConcurrency
      lpc |-> "idle", fn |-> "none", items |-> <<>>, concurrency |-> CONCURRENCY,
      i |-> 0, results |-> <<>>, ops |-> <<>>,
      \* what the run has asked of the outside, and how it was answered
      dbCalls |-> <<>>, aiCalls |-> <<>>, aiDone |-> 0, posts |-> <<>>,
      dedupOutcome |-> "none", existingAtDedup |-> {}, insertOutcome |-> "none",
      fallbacks |-> 0, acked |-> 0, refused |-> 0,
      order |-> <<>>,
      index |-> NewIndex ]

Select(emails) == [op |-> "select", emails |-> emails, rows |-> <<>>]

Insert(rows) == [op |-> "insert", emails |-> <<>>, rows |-> rows]

----------------------------------------------------------------------------
(* runWithConcurrency(items, concurrency, fn) *)

Min(a, b) == IF a < b THEN a ELSE b

SliceOneTooMany(i, concurrency, n) == (i + 1)..Min(i + concurrency + 1, n)

\* items.slice(i, i + concurrency), as the (1-based) indices of the items
Slice(i, concurrency, n) == (i + 1)..Min(i + concurrency, n)

Batch(r) == Slice(r.i, r.concurrency, Len(r.items))

InFlight(r) == {j \in 1..Len(r.ops) : r.ops[j].st = "pending"}

\* Promise.all(batch.map(fn)): rejected with the first rejection, fulfilled
\* when every operation of the batch is
\* a Promise.all that is never settled
PromiseAllNeverSettles(r) == "pending"

PromiseAll(r) ==
    IF \E j \in Batch(r) : r.ops[j].st = "rejected" THEN "rejected"
    ELSE IF \A j \in Batch(r) : r.ops[j].st = "fulfilled" THEN "fulfilled"
    ELSE "pending"

\* The continuation of the await runs before any further completion is
\* delivered (promise jobs run before the next I/O callback).
CanSettle(r, j) ==
    /\ j \in 1..Len(r.ops)
    /\ r.ops[j].st = "pending"
    /\ ~(r.lpc = "await" /\ PromiseAll(r) # "pending")

RECURSIVE SeqOfSet(_, _)
\* the values of f at the indices idx, in index order
SeqOfSet(f, idx) ==
    IF idx = {} THEN <<>>
    ELSE LET m == CHOOSE x \in idx : \A y \in idx : x <= y
         IN  <<f[m]>> \o SeqOfSet(f, idx \ {m})

\* results pushed as the operations complete, not in the batch's order
BatchResultsByCompletion(r) ==
    LET done == SelectSeq(r.order, LAMBDA j : j \in Batch(r))
    IN  [k \in 1..Len(done) |-> r.ops[done[k]].val[1]]

\* batchResults: the values of the batch's operations, in the batch's order
BatchResults(r) ==
    LET b == SeqOfSet(r.ops, Batch(r))
    IN  [k \in 1..Len(b) |-> b[k].val[1]]

\* runWithConcurrency is entered: results = [], i = 0
Enter(r, fn, items, concurrency) ==
    [r EXCEPT !.lpc = "loop", !.fn = fn, !.items = items,
              !.concurrency = concurrency, !.i = 0, !.results = <<>>,
              !.ops = [j \in 1..Len(items) |-> NoOp]]

\* batch.map(fn) calls fn on every item of the batch; each call runs to its
\* first await, which is where the request of the stage goes out.
Started(r) ==
    LET b == Batch(r)
        o == [j \in 1..Len(r.ops) |->
                 IF j \in b
                 THEN [st |-> "pending", val |-> <<>>, n |-> r.ops[j].n + 1, resp |-> <<>>]
                 ELSE r.ops[j]]
        sent == SeqOfSet(r.items, b)
    IN  [r EXCEPT !.ops = o, !.lpc = "await",
                  !.aiCalls = IF r.fn = "classify" THEN @ \o [k \in 1..Len(sent) |-> sent[k]] ELSE @,
                  !.posts = IF r.fn = "deliver"
                            THEN @ \o [k \in 1..Len(sent) |-> Payload(sent[k])]
                            ELSE @]

\* for (let i = 0; i < items.length; i += concurrency) { batch = ...; await Promise.all(...)
RWCLoop(p) ==
    /\ run[p].lpc = "loop"
    /\ run' = [run EXCEPT ![p] =
                 IF run[p].i < Len(run[p].items)
                 THEN Started(run[p])
                 ELSE [run[p] EXCEPT !.lpc = "returned"]]
    /\ UNCHANGED store

\* ... results.push(...batchResults) }, or the rejection thrown out of the await
\* i++ in place of i += concurrency
NextIndexByOne(i, concurrency) == i + 1

\* for (...; i += concurrency)
NextIndex(i, concurrency) == i + concurrency

RWCResume(p) ==
    /\ run[p].lpc = "await"
    /\ PromiseAll(run[p]) # "pending"
    /\ run' = [run EXCEPT ![p] =
                 IF PromiseAll(run[p]) = "fulfilled"
                 THEN [run[p] EXCEPT !.results = @ \o BatchResults(run[p]),
                                     !.i = NextIndex(@, run[p].concurrency),
                                     !.lpc = "loop"]
                 ELSE [run[p] EXCEPT !.lpc = "thrown"]]
    /\ UNCHANGED store

Fulfilled(r, j, v) ==
    [r EXCEPT !.ops[j].st = "fulfilled", !.ops[j].val = <<v>>]

Rejected(r, j) == [r EXCEPT !.ops[j].st = "rejected"]

\* An operation that may resolve with any value or reject (the limiter's
\* contract is stated for any fn).
GenericSettle(p) ==
    \E j \in DOMAIN run[p].ops :
        /\ run[p].fn = "generic"
        /\ CanSettle(run[p], j)
        /\ \E o \in Outcomes :
              run' = [run EXCEPT ![p] =
                  LET r == [run[p] EXCEPT !.order = Append(@, j)]
                  IN  IF o.rejects
                      THEN Rejected(r, j)
                      ELSE Fulfilled(r, j, [item |-> r.items[j], out |-> o.out])]
        /\ UNCHANGED store

----------------------------------------------------------------------------
(* filterDuplicates *)

EmailsOf(leads) == [k \in 1..Len(leads) |-> leads[k].Email]

QueryOutcomes == {"ok", "error", "throw", "nodata"}

RECURSIVE FilterLoopPushAll(_, _, _, _)
FilterLoopPushAll(leads, k, existingEmails, acc) ==
    IF k > Len(leads) THEN acc
    ELSE FilterLoopPushAll(leads, k + 1, existingEmails,
            [newLeads |-> Append(acc.newLeads, leads[k]),
             duplicateCount |-> IF leads[k].Email \in existingEmails
                                THEN acc.duplicateCount + 1
                                ELSE acc.duplicateCount])

RECURSIVE FilterLoopInverted(_, _, _, _)
FilterLoopInverted(leads, k, existingEmails, acc) ==
    IF k > Len(leads) THEN acc
    ELSE FilterLoopInverted(leads, k + 1, existingEmails,
            IF leads[k].Email \notin existingEmails
            THEN [acc EXCEPT !.duplicateCount = @ + 1]
            ELSE [acc EXCEPT !.newLeads = Append(@, leads[k])])

\* a loop that also remembers the emails it has let through
RECURSIVE FilterLoopOncePerEmail(_, _, _, _)
FilterLoopOncePerEmail(leads, k, existingEmails, acc) ==
    IF k > Len(leads) THEN acc
    ELSE IF leads[k].Email \in existingEmails
    THEN FilterLoopOncePerEmail(leads, k + 1, existingEmails,
            [acc EXCEPT !.duplicateCount = @ + 1])
    ELSE FilterLoopOncePerEmail(leads, k + 1, existingEmails \cup {leads[k].Email},
            [acc EXCEPT !.newLeads = Append(@, leads[k])])

RECURSIVE FilterLoop(_, _, _, _)
\* for (const lead of leads) { if (existingEmails.has(lead['Email'])) ... }
FilterLoop(leads, k, existingEmails, acc) ==
    IF k > Len(leads) THEN acc
    ELSE FilterLoop(leads, k + 1, existingEmails,
            IF leads[k].Email \in existingEmails
            THEN [acc EXCEPT !.duplicateCount = @ + 1]
            ELSE [acc EXCEPT !.newLeads = Append(@, leads[k])])

FilterDuplicatesFailClosed(leads, outcome, data) ==
    IF outcome # "ok"
    THEN [newLeads |-> <<>>, duplicateCount |-> Len(leads)]
    ELSE FilterLoop(leads, 1, data, [newLeads |-> <<>>, duplicateCount |-> 0])

\* What filterDuplicates returns once the query has ended: with an error
\* result, with a thrown exception, with neither error nor data (data.map
\* then throws inside the try), or with the rows found.
FilterDuplicatesReturn(leads, outcome, data) ==
    IF outcome = "error"
    THEN [newLeads |-> leads, duplicateCount |-> 0]
    ELSE IF outcome \in {"throw", "nodata"}
    THEN [newLeads |-> leads, duplicateCount |-> 0]
    ELSE FilterLoop(leads, 1, data, [newLeads |-> <<>>, duplicateCount |-> 0])

----------------------------------------------------------------------------
(* addLeadsToDatabase *)

RowsFirstOnly(classifiedLeads) ==
    [k \in 1..Min(1, Len(classifiedLeads)) |-> StoredRow(classifiedLeads[k])]

\* const rows = classifiedLeads.map(...)
Rows(classifiedLeads) ==
    [k \in 1..Len(classifiedLeads) |-> StoredRow(classifiedLeads[k])]

InsertOutcomes == {"ok", "error", "throw"}

AddLeadsToDatabaseCountsRows(rows, outcome) ==
    [success |-> outcome = "ok", count |-> Len(rows)]

AddLeadsToDatabaseReturn(rows, outcome) ==
    IF outcome = "error" THEN [success |-> FALSE, count |-> 0]
    ELSE IF outcome = "throw" THEN [success |-> FALSE, count |-> 0]
    ELSE [success |-> TRUE, count |-> Len(rows)]

----------------------------------------------------------------------------
(* The summary of main *)

\* byPersona[persona]++ : a key that is none of the four gets NaN
Incremented(byPersona, persona) ==
    IF persona \in Personas
    THEN [byPersona EXCEPT !.counts[persona] = @ + 1]
    ELSE [byPersona EXCEPT !.nan = @ \cup {persona}]

RECURSIVE CountLoop(_, _, _)
CountLoop(classifiedLeads, k, byPersona) ==
    IF k > Len(classifiedLeads) THEN byPersona
    ELSE CountLoop(classifiedLeads, k + 1,
                   Incremented(byPersona, classifiedLeads[k].persona))

ByPersona(classifiedLeads) ==
    CountLoop(classifiedLeads, 1, [counts |-> [q \in Personas |-> 0], nan |-> {}])

\* "Failed DB inserts" printed as the size of the whole file
SummaryFailedCountsFile(r) ==
    [ total |-> Len(r.leads),
      processed |-> r.dbResult[1].count,
      skipped |-> r.duplicateCount,
      failedInserts |-> IF r.dbResult[1].success THEN 0 ELSE Len(r.leads),
      sent |-> r.successCount,
      failed |-> r.failCount,
      byPersona |-> ByPersona(r.classifiedLeads) ]

Summary(r) ==
    [ total |-> Len(r.leads),
      processed |-> r.dbResult[1].count,
      skipped |-> r.duplicateCount,
      failedInserts |-> IF r.dbResult[1].success THEN 0 ELSE Len(r.newLeads),
      sent |-> r.successCount,
      failed |-> r.failCount,
      byPersona |-> ByPersona(r.classifiedLeads) ]

----------------------------------------------------------------------------
(* main *)

\* readCSV, then filterDuplicates up to its query
ReadCSV(p) ==
    /\ run[p].pc = "start"
    /\ \E readable \in BOOLEAN :
          run' = [run EXCEPT ![p] =
              IF readable
              THEN [run[p] EXCEPT !.leads = run[p].csv,
                                  !.dbCalls = Append(@, Select(EmailsOf(run[p].csv))),
                                  !.pc = "filterDuplicates"]
              ELSE [run[p] EXCEPT !.pc = "fatal", !.exitCode = 1]]
    /\ UNCHANGED store

\* The query ends; filterDuplicates returns; main stops when nothing is
\* new and enters classifyLeads otherwise.
NothingToProcessNever(newLeads) == FALSE

\* if (newLeads.length === 0) { ... 'Nothing to process.' ... return; }
NothingToProcess(newLeads) == Len(newLeads) = 0

FilterDuplicates(p) ==
    /\ run[p].pc = "filterDuplicates"
    /\ \E outcome \in QueryOutcomes :
          LET r == run[p]
              data == SelectIn(EmailsOf(r.leads))
              ret == FilterDuplicatesReturn(r.leads, outcome, data)
              after == [r EXCEPT !.newLeads = ret.newLeads,
                                 !.duplicateCount = ret.duplicateCount,
                                 !.dedupOutcome = outcome,
                                 !.existingAtDedup = StoreEmails]
          IN  run' = [run EXCEPT ![p] =
                  IF NothingToProcess(ret.newLeads)
                  THEN [after EXCEPT !.pc = "nothing"]
                  ELSE Enter([after EXCEPT !.pc = "classifyLeads"],
                             "classify", ret.newLeads, CONCURRENCY)]
    /\ UNCHANGED store

\* classifyLead took one of its two "Defaulting to Persona 4" paths: the
\* warning for a text without a token, or the catch.
FellBack(resp) == resp.kind # "text" \/ ~Match(Trim(resp.text))

\* the callback without classifyLead's try/catch: a thrown call rejects
ClassifyCallbackUncaught(r, j, resp) ==
    IF resp.kind = "throw"
    THEN Rejected(r, j)
    ELSE Fulfilled(r, j, [lead |-> r.items[j], persona |-> ClassifyLead(resp)])

\* async (lead) => { const persona = await classifyLead(lead); ...; return { lead, persona } }
ClassifyCallback(r, j, resp) ==
    Fulfilled(r, j, [lead |-> r.items[j], persona |-> ClassifyLead(resp)])

\* One classification call ends; the callback of classifyLeads resolves
\* with {lead, persona}.  classifyLead catches whatever the call throws, so
\* this callback never rejects and runWithConcurrency never throws in main.
ClassifySettle(p) ==
    \E j \in DOMAIN run[p].ops :
        /\ run[p].fn = "classify"
        /\ CanSettle(run[p], j)
        /\ \E resp \in Responses :
              run' = [run EXCEPT ![p] =
                  ClassifyCallback([run[p] EXCEPT !.aiDone = @ + 1,
                                                  !.ops[j].resp = <<resp>>,
                                                  !.fallbacks = IF FellBack(resp)
                                                                THEN @ + 1 ELSE @],
                                   j, resp)]
        /\ UNCHANGED store

ClassificationStillRunning(r) == r.lpc \in {"loop", "await", "returned"}

\* const classifiedLeads = await classifyLeads(newLeads)
ClassificationComplete(r) == r.lpc = "returned"

\* classifyLeads has returned: addLeadsToDatabase up to its insert
AddLeadsToDatabase(p) ==
    /\ run[p].pc = "classifyLeads"
    /\ ClassificationComplete(run[p])
    /\ run' = [run EXCEPT ![p] =
                 [run[p] EXCEPT !.classifiedLeads = run[p].results,
                                !.dbCalls = Append(@, Insert(Rows(run[p].results))),
                                !.lpc = "idle",
                                !.pc = "addLeadsToDatabase"]]
    /\ UNCHANGED store

DeliveryItemsIfPersisted(r) ==
    IF r.dbResult[1].success THEN r.classifiedLeads ELSE <<>>

\* const webhookResult = await sendLeadsToWebhook(classifiedLeads)
DeliveryItems(r) == r.classifiedLeads

\* The insert ends; addLeadsToDatabase returns; main enters
\* sendLeadsToWebhook.  The insert is one statement: all rows or none.
InsertEnds(p) ==
    /\ run[p].pc = "addLeadsToDatabase"
    /\ \E outcome \in InsertOutcomes :
          LET r == run[p]
              rows == Rows(r.classifiedLeads)
          IN  /\ outcome = "ok" => ~UniqueViolation(rows)
              /\ store' = IF outcome = "ok"
                          THEN store \cup {rows[k] : k \in 1..Len(rows)}
                          ELSE store
              /\ run' = [run EXCEPT ![p] =
                    LET after == [r EXCEPT !.dbResult = <<AddLeadsToDatabaseReturn(rows, outcome)>>,
                                           !.insertOutcome = outcome,
                                           !.successCount = 0, !.failCount = 0,
                                           !.pc = "sendLeadsToWebhook"]
                    IN  Enter(after, "deliver", DeliveryItems(after), CONCURRENCY)]

CountDeliveryForgetsThrown(r, resp) ==
    IF Delivered(resp) THEN [r EXCEPT !.successCount = @ + 1]
    ELSE IF resp.kind = "throw" THEN r
    ELSE [r EXCEPT !.failCount = @ + 1]

\* a failure counted in the else branch and once more in the catch
CountDeliveryFailureTwice(r, resp) ==
    IF Delivered(resp)
    THEN [r EXCEPT !.successCount = @ + 1]
    ELSE [r EXCEPT !.failCount = @ + 2]

\* successCount++ for 200 and 201, failCount++ in the else branch and in
\* the catch
CountDelivery(r, resp) ==
    IF Delivered(resp)
    THEN [r EXCEPT !.successCount = @ + 1]
    ELSE [r EXCEPT !.failCount = @ + 1]

\* One webhook call ends; the callback counts it.
WebhookSettle(p) ==
    \E j \in DOMAIN run[p].ops :
        /\ run[p].fn = "deliver"
        /\ CanSettle(run[p], j)
        /\ \E resp \in WebhookResponses :
              run' = [run EXCEPT ![p] =
                  Fulfilled(CountDelivery(
                                IF resp.kind = "status" /\ resp.status \in {200, 201}
                                THEN [run[p] EXCEPT !.acked = @ + 1]
                                ELSE [run[p] EXCEPT !.refused = @ + 1],
                                resp),
                            j, "undefined")]
        /\ UNCHANGED store

\* sendLeadsToWebhook has returned: the persona counts and the summary
Summarize(p) ==
    /\ run[p].pc = "sendLeadsToWebhook"
    /\ run[p].lpc = "returned"
    /\ run' = [run EXCEPT ![p] =
                 [run[p] EXCEPT !.summary = <<Summary(run[p])>>,
                                !.lpc = "idle",
                                !.pc = "done"]]
    /\ UNCHANGED store

----------------------------------------------------------------------------
(* One run of main against a table that is empty or holds earlier leads *)

\* one run of main about to start on a file out of files
InitMain(files) ==
    \E csv \in files : \E rows \in InitialStores :
        /\ store = rows
        /\ run = [p \in Runs |->
                    IF p = 1 THEN NewRun("start", csv) ELSE NewRun("off", <<>>)]

Init == InitMain(CsvFiles)

Next ==
    \E p \in Runs :
        \/ ReadCSV(p)
        \/ FilterDuplicates(p)
        \/ RWCLoop(p)
        \/ ClassifySettle(p)
        \/ RWCResume(p)
        \/ AddLeadsToDatabase(p)
        \/ InsertEnds(p)
        \/ WebhookSettle(p)
        \/ Summarize(p)

Spec == Init /\ [][Next]_vars

----------------------------------------------------------------------------
(* The script run twice over the same file and the same store, the second
   run launched when the first has ended, for the comparison of one run
   with another *)

InitPair ==
    \E csv \in Batches(PairLeads) : \E rows \in InitialStores :
        /\ store = rows
        /\ run = [p \in Runs |->
                    IF p = 1 THEN NewRun("start", csv) ELSE NewRun("waiting", csv)]

Ended(r) == r.pc \in {"done", "nothing", "fatal"}

\* node classify-leads.js, once more: main() is called in a new process
Launch(p) ==
    /\ run[p].pc = "waiting"
    /\ \A q \in Runs \ {p} : Ended(run[q])
    /\ run' = [run EXCEPT ![p].pc = "start"]
    /\ UNCHANGED store

NextPair ==
    \/ Next
    \/ \E p \in Runs : Launch(p)

SpecPair == InitPair /\ [][NextPair]_vars

----------------------------------------------------------------------------
(* Two runs of main at the same time over one store, each with its own
   file, the two files sharing an email.  Every interleaving of the two
   runs is taken.  What the runs have in common is the store, so the
   outcomes that do not touch it are kept to one each: the file is
   readable, the existence query succeeds, the classifier answers
   "Persona 1", the webhook acknowledges; the insert succeeds or returns an
   error. *)

RaceFiles == UNION {Batches(n) : n \in 1..RaceLeads}

Overlap(csv1, csv2) ==
    \E k \in 1..Len(csv1) : \E l \in 1..Len(csv2) : csv1[k].Email = csv2[l].Email

InitRace ==
    \E csv1, csv2 \in RaceFiles : \E rows \in InitialStores :
        /\ Overlap(csv1, csv2)
        /\ store = rows
        /\ run = [p \in Runs |-> NewRun("start", IF p = 1 THEN csv1 ELSE csv2)]

InRaceScope(r) ==
    /\ r.pc # "fatal"
    /\ r.dedupOutcome \in {"none", "ok"}
    /\ r.insertOutcome \in {"none", "ok", "error"}
    /\ r.fn = "classify" =>
          \A j \in DOMAIN r.ops :
              r.ops[j].resp # <<>> =>
                  r.ops[j].resp[1] = [kind |-> "text", text |-> Persona("1")]
    /\ r.refused = 0

Scoped == \A p \in Runs : InRaceScope(run'[p])

NextRace ==
    \E p \in Runs :
        \/ ReadCSV(p) /\ Scoped
        \/ FilterDuplicates(p) /\ Scoped
        \/ RWCLoop(p) /\ Scoped
        \/ ClassifySettle(p) /\ Scoped
        \/ RWCResume(p) /\ Scoped
        \/ AddLeadsToDatabase(p) /\ Scoped
        \/ InsertEnds(p) /\ Scoped
        \/ WebhookSettle(p) /\ Scoped
        \/ Summarize(p) /\ Scoped

SpecRace == InitRace /\ [][NextRace]_vars

----------------------------------------------------------------------------
(* The limiter on its own: any items, any bound K >= 1, any fn *)

\* runWithConcurrency called with up to maxItems items and K up to maxK
InitCall(maxItems, maxK) ==
    /\ store = {}
    /\ \E n \in 0..maxItems : \E items \in [1..n -> ItemVals] : \E k \in 1..maxK :
          run = [p \in Runs |->
                   IF p = 1
                   THEN Enter(NewRun("limiter", <<>>), "generic", items, k)
                   ELSE NewRun("off", <<>>)]

InitLimiter == InitCall(MaxItems, MaxK)

NextLimiter ==
    \E p \in Runs : RWCLoop(p) \/ GenericSettle(p) \/ RWCResume(p)

SpecLimiter == InitLimiter /\ [][NextLimiter]_vars

----------------------------------------------------------------------------
(* Properties of the limiter *)

\* C1: at no instant are more than K invocations of fn started and not yet
\* resolved, for every N, every K >= 1 and every order of completion.
C1_InFlightAtMostK ==
    \A p \in Runs : Cardinality(InFlight(run[p])) <= run[p].concurrency

\* a later chunk is running at full width while items remain
C1_Witness ==
    \E p \in Runs :
        /\ run[p].concurrency >= 2
        /\ run[p].i >= run[p].concurrency
        /\ Cardinality(InFlight(run[p])) = run[p].concurrency
        /\ Len(run[p].items) >= run[p].i + run[p].concurrency

\* C2: when every operation resolves, the limiter returns exactly N
\* results, result j being the value fn produced for items[j] in whatever
\* order the operations completed, and fn was invoked once per item.
C2_ResultsInInputOrder ==
    \A p \in Runs :
        run[p].lpc = "returned" =>
            /\ Len(run[p].results) = Len(run[p].items)
            /\ \A j \in 1..Len(run[p].items) :
                  /\ run[p].ops[j].st = "fulfilled"
                  /\ run[p].ops[j].n = 1
                  /\ run[p].results[j] = run[p].ops[j].val[1]
                  /\ run[p].results[j].item = run[p].items[j]

\* a run of three chunks returned although, within a chunk, a later item
\* completed before an earlier one and produced another value
C2_Witness ==
    \E p \in Runs :
        /\ run[p].lpc = "returned"
        /\ Len(run[p].items) = 4
        /\ run[p].concurrency = 2
        /\ run[p].order = <<2, 1, 4, 3>>
        /\ run[p].results[1].out # run[p].results[2].out
        /\ run[p].items[1] # run[p].items[2]

\* C3: a rejected operation does not keep the limiter from invoking fn on
\* every item: once runWithConcurrency is over, each item's operation has
\* been started.
C3_NoShortCircuit ==
    \A p \in Runs :
        run[p].lpc \in {"returned", "thrown"} =>
            \A j \in 1..Len(run[p].items) : run[p].ops[j].n >= 1

----------------------------------------------------------------------------
(* Properties of the pipeline *)

Deduplicated(r) == r.dedupOutcome # "none"

InsertIssued(r) == \E k \in 1..Len(r.dbCalls) : r.dbCalls[k].op = "insert"

CountOf(classifiedLeads, q) ==
    Cardinality({k \in 1..Len(classifiedLeads) : classifiedLeads[k].persona = q})

\* C4: every classified record carries exactly one of the four category
\* tokens, whatever the classification service answered.
C4_CategoryIsOneOfFour ==
    \A p \in Runs :
        \A k \in 1..Len(run[p].classifiedLeads) :
            run[p].classifiedLeads[k].persona \in Personas

\* C5: whatever the existence query does, filterDuplicates returns
\* duplicateCount + |newLeads| = |input batch|.
C5_CountsAddUp ==
    \A p \in Runs :
        Deduplicated(run[p]) =>
            run[p].duplicateCount + Len(run[p].newLeads) = Len(run[p].leads)

\* a batch of two, one of them stored already, split by an answered query
C5_Witness ==
    \E p \in Runs :
        /\ run[p].dedupOutcome = "ok"
        /\ Len(run[p].leads) = 2
        /\ run[p].duplicateCount = 1
        /\ Len(run[p].newLeads) = 1

\* C6: when the existence query fails (error result, exception, or no data
\* set), filterDuplicates does not raise and returns the whole batch,
\* unchanged and in order, as newLeads with duplicateCount = 0.
C6_FailOpen ==
    \A p \in Runs :
        run[p].dedupOutcome \in {"error", "throw", "nodata"} =>
            /\ run[p].newLeads = run[p].csv
            /\ run[p].duplicateCount = 0
            /\ run[p].pc # "fatal"
            /\ run[p].exitCode = 0

\* the query threw for a batch of two of which one is stored already
C6_Witness ==
    \E p \in Runs :
        /\ run[p].dedupOutcome = "throw"
        /\ Len(run[p].csv) = 2
        /\ run[p].csv[1].Email \in run[p].existingAtDedup
        /\ run[p].csv[2].Email \notin run[p].existingAtDedup
        /\ Len(run[p].newLeads) = 2

\* C7 as claimed: every record passed to classifyLead has an email that
\* was absent from the store at dedup time.
C7_OnlyNewReachClassification ==
    \A p \in Runs :
        \A k \in 1..Len(run[p].aiCalls) :
            run[p].aiCalls[k].Email \notin run[p].existingAtDedup

\* C7 as amended: in a run whose existence query was answered, every record
\* passed to classifyLead has an email that was absent from the store at
\* dedup time.
C7_OnlyNewReachClassificationWhenAnswered ==
    \A p \in Runs :
        run[p].dedupOutcome = "ok" =>
            \A k \in 1..Len(run[p].aiCalls) :
                run[p].aiCalls[k].Email \notin run[p].existingAtDedup

\* the stored lead of a batch was held back and the other one classified
C7_Witness ==
    \E p \in Runs :
        /\ run[p].dedupOutcome = "ok"
        /\ run[p].existingAtDedup # {}
        /\ run[p].duplicateCount = 1
        /\ Len(run[p].aiCalls) = 1
        /\ run[p].aiDone = 1

\* C8: addLeadsToDatabase returns {success: true, count: N} or
\* {success: false, count: 0}; a failed insert does not abort the run, the
\* summary then shows 0 persisted, and the per-category counts are those of
\* the classified records, as they are when the insert succeeds.
C8_InsertAllOrNothing ==
    \A p \in Runs :
        run[p].dbResult # <<>> =>
            LET d == run[p].dbResult[1]
                n == Len(run[p].classifiedLeads)
            IN  /\ \/ d.success /\ d.count = n /\ run[p].insertOutcome = "ok"
                   \/ ~d.success /\ d.count = 0 /\ run[p].insertOutcome # "ok"
                /\ run[p].pc \in {"sendLeadsToWebhook", "done"}
                /\ run[p].exitCode = 0
                /\ run[p].summary # <<>> =>
                      /\ run[p].summary[1].processed = d.count
                      /\ ~d.success => run[p].summary[1].processed = 0
                      /\ \A q \in Personas :
                            run[p].summary[1].byPersona.counts[q]
                                = CountOf(run[p].classifiedLeads, q)

\* a run of two classified records whose insert failed reached its summary
C8_Witness ==
    \E p \in Runs :
        /\ run[p].pc = "done"
        /\ run[p].insertOutcome = "error"
        /\ Len(run[p].classifiedLeads) = 2
        /\ run[p].summary[1].processed = 0
        /\ run[p].summary[1].byPersona.counts[Persona("1")] = 1
        /\ run[p].summary[1].byPersona.counts[Persona("3")] = 1

\* C9: a run that has read its batch sends the store one existence query,
\* for all emails of the batch, and, when some record is new, one insert
\* whose rows are the classified records in order, each "Not Contacted";
\* it sends no query or insert per record.
C9_OneQueryOneInsert ==
    \A p \in Runs :
        LET c == run[p].dbCalls
        IN  /\ Len(c) <= 2
            /\ run[p].pc \in {"off", "start", "fatal"} => c = <<>>
            /\ Len(c) >= 1 => c[1] = Select(EmailsOf(run[p].csv))
            /\ Len(c) = 2 =>
                  /\ c[2].op = "insert"
                  /\ run[p].newLeads # <<>>
                  /\ Len(c[2].rows) = Len(run[p].newLeads)
                  /\ \A k \in 1..Len(c[2].rows) :
                        /\ c[2].rows[k].email = run[p].newLeads[k].Email
                        /\ c[2].rows[k].row = run[p].newLeads[k].Row
                        /\ c[2].rows[k].persona = run[p].classifiedLeads[k].persona
                        /\ c[2].rows[k].lead_status = "Not Contacted"
            /\ run[p].pc \in {"filterDuplicates", "nothing", "classifyLeads"} => Len(c) = 1
            /\ run[p].pc \in {"addLeadsToDatabase", "sendLeadsToWebhook", "done"} => Len(c) = 2

\* a finished run of two new records: one query, one insert of two rows
C9_Witness ==
    \E p \in Runs :
        /\ run[p].pc = "done"
        /\ Len(run[p].dbCalls) = 2
        /\ Len(run[p].dbCalls[1].emails) = 2
        /\ Len(run[p].dbCalls[2].rows) = 2
        /\ run[p].dbCalls[2].rows[1].persona # run[p].dbCalls[2].rows[2].persona

\* C10: the stages run in the order deduplicate, classify, persist,
\* deliver: no classification call before the existence query has ended,
\* the insert only once every classification call of the run has ended, and
\* no webhook call before the insert has ended.
C10_StageOrder ==
    \A p \in Runs :
        /\ run[p].aiCalls # <<>> => Deduplicated(run[p])
        /\ InsertIssued(run[p]) =>
              /\ Len(run[p].aiCalls) = Len(run[p].newLeads)
              /\ run[p].aiDone = Len(run[p].aiCalls)
              /\ Len(run[p].classifiedLeads) = Len(run[p].newLeads)
        /\ run[p].posts # <<>> =>
              /\ InsertIssued(run[p])
              /\ run[p].insertOutcome # "none"
        /\ run[p].insertOutcome # "none" => InsertIssued(run[p])

\* two webhook calls are out after an insert that followed two
\* classifications
C10_Witness ==
    \E p \in Runs :
        /\ Len(run[p].posts) = 2
        /\ run[p].aiDone = 2
        /\ run[p].insertOutcome = "ok"
        /\ run[p].pc = "sendLeadsToWebhook"

\* C11: delivery does not depend on persistence: a run whose insert failed
\* still hands every classified record to the webhook stage, and by the
\* time that stage has returned it has sent one webhook call per classified
\* record, in order, each carrying that record and its category.
C11_DeliveryDespiteFailedInsert ==
    \A p \in Runs :
        /\ run[p].insertOutcome \notin {"none", "ok"} =>
              /\ run[p].fn = "deliver"
              /\ run[p].items = run[p].classifiedLeads
              /\ Len(run[p].posts) <= Len(run[p].classifiedLeads)
              /\ \A k \in 1..Len(run[p].posts) :
                    run[p].posts[k] = Payload(run[p].classifiedLeads[k])
        /\ run[p].insertOutcome \notin {"none", "ok"} /\ run[p].pc = "done" =>
              /\ Len(run[p].posts) = Len(run[p].classifiedLeads)
              /\ run[p].successCount + run[p].failCount = Len(run[p].classifiedLeads)

\* the insert of two classified records failed and both were delivered
C11_Witness ==
    \E p \in Runs :
        /\ run[p].pc = "done"
        /\ run[p].insertOutcome = "error"
        /\ ~run[p].dbResult[1].success
        /\ Len(run[p].classifiedLeads) = 2
        /\ Len(run[p].posts) = 2
        /\ run[p].successCount = 2

C13_DeliveryCounts ==
    \A p \in Runs :
        LET r == run[p]
            n == Len(r.classifiedLeads)
        IN  /\ r.pc = "sendLeadsToWebhook" =>
                  /\ Len(r.posts) <= n
                  /\ \A k \in 1..Len(r.posts) : r.posts[k] = Payload(r.classifiedLeads[k])
                  /\ r.failCount = r.refused
                  /\ r.successCount = r.acked
            /\ (r.pc = "sendLeadsToWebhook" /\ r.lpc = "returned") \/ r.pc = "done" =>
                  /\ Len(r.posts) = n
                  /\ r.successCount + r.failCount = n
                  /\ r.failCount = r.refused
                  /\ r.dbResult[1].count = IF r.insertOutcome = "ok" THEN n ELSE 0
            /\ r.pc = "done" =>
                  /\ r.summary[1].sent + r.summary[1].failed = n
                  /\ r.summary[1].failed = r.refused
                  /\ r.summary[1].processed = IF r.insertOutcome = "ok" THEN n ELSE 0

\* three records were persisted and delivered, one delivery failed: the
\* summary has 2 sent, 1 failed, 3 processed
C13_Witness ==
    \E p \in Runs :
        /\ run[p].pc = "done"
        /\ Len(run[p].classifiedLeads) = 3
        /\ run[p].refused = 1
        /\ run[p].summary[1].sent = 2
        /\ run[p].summary[1].failed = 1
        /\ run[p].summary[1].processed = 3

\* C14: a delivery is counted a success exactly when its webhook call
\* returned status 200 or 201; a call that returned another status or threw
\* is counted a failure; no delivery callback rejects, so nothing is raised
\* out of sendLeadsToWebhook.
C14_SuccessIffOkOrCreated ==
    \A p \in Runs :
        run[p].fn = "deliver" =>
            /\ run[p].successCount = run[p].acked
            /\ run[p].failCount = run[p].refused
            /\ run[p].acked + run[p].refused
                  = Cardinality({j \in DOMAIN run[p].ops : run[p].ops[j].st = "fulfilled"})
            /\ \A j \in DOMAIN run[p].ops : run[p].ops[j].st # "rejected"
            /\ run[p].lpc # "thrown"
            /\ run[p].exitCode = 0

\* of three deliveries one was acknowledged and two were not, and the
\* stage returned
C14_Witness ==
    \E p \in Runs :
        /\ run[p].pc = "sendLeadsToWebhook"
        /\ run[p].lpc = "returned"
        /\ run[p].acked = 1
        /\ run[p].refused = 2
        /\ run[p].successCount = 1
        /\ run[p].failCount = 2

\* the guard of some action of main holds for the run
CanStep(r) ==
    \/ r.pc \in {"start", "filterDuplicates", "addLeadsToDatabase"}
    \/ /\ r.pc \in {"classifyLeads", "sendLeadsToWebhook"}
       /\ \/ r.lpc \in {"loop", "returned"}
          \/ r.lpc = "await" /\ PromiseAll(r) # "pending"
          \/ r.lpc = "await" /\ \E j \in DOMAIN r.ops : CanSettle(r, j)

\* C15: the run exits with code 1 only when the record source could not be
\* read, before any store, classification or webhook call; once the batch
\* is read, whatever fails in the existence query, the classification
\* calls, the insert and the deliveries, the run keeps exit code 0, nothing
\* is thrown out of a stage, and some step of main stays possible until
\* the run is at the summary or at the short circuit.
C15_OnlySourceErrorIsFatal ==
    \A p \in Runs :
        /\ run[p].exitCode = 1 <=> run[p].pc = "fatal"
        /\ run[p].pc = "fatal" =>
              /\ run[p].leads = <<>> /\ run[p].dbCalls = <<>>
              /\ run[p].aiCalls = <<>> /\ run[p].posts = <<>>
        /\ run[p].lpc # "thrown"
        /\ run[p].pc \notin {"off", "fatal", "nothing", "done"} => CanStep(run[p])

\* the existence query threw, a classification fell back, the insert
\* failed and a delivery failed, and the run reached its summary
C15_Witness ==
    \E p \in Runs :
        /\ run[p].pc = "done"
        /\ run[p].exitCode = 0
        /\ run[p].dedupOutcome = "throw"
        /\ run[p].fallbacks >= 1
        /\ run[p].insertOutcome = "throw"
        /\ run[p].refused >= 1

\* the two runs agree in their input and in every outcome but in how often
\* classifyLead fell back to Persona 4
DifferOnlyInFallback(r1, r2) ==
    /\ r1.leads = r2.leads
    /\ r1.newLeads = r2.newLeads
    /\ r1.duplicateCount = r2.duplicateCount
    /\ r1.classifiedLeads = r2.classifiedLeads
    /\ r1.dbResult = r2.dbResult
    /\ r1.acked = r2.acked /\ r1.refused = r2.refused
    /\ r1.fallbacks # r2.fallbacks

\* C16: the summary tells a fallback "Persona 4" from one the service
\* returned: two finished runs that differ only in that a record got
\* Persona 4 by fallback in one and from the service in the other have
\* different summaries.
C16_FallbackVisibleInSummary ==
    /\ run[1].pc = "done"
    /\ run[2].pc = "done"
    /\ DifferOnlyInFallback(run[1], run[2])
    => run[1].summary # run[2].summary

\* C17: in the summary each per-category count is the number of classified
\* records with that category, and the four counts add up to the number of
\* classified records, whatever the classifier answered.
C17_CategoryCountsAddUp ==
    \A p \in Runs :
        run[p].pc = "done" =>
            LET counts == run[p].summary[1].byPersona.counts
            IN  /\ \A q \in Personas : counts[q] = CountOf(run[p].classifiedLeads, q)
                /\ counts[Persona("1")] + counts[Persona("2")]
                     + counts[Persona("3")] + counts[Persona("4")]
                        = Len(run[p].classifiedLeads)

\* C18: a record whose classification call threw gets Persona 4, a record
\* whose call returned one of the four categories keeps that category; no
\* classification call rejects, so the run goes on to the insert, and the
\* persisted count of a finished run is all new records or none, by the
\* insert's outcome alone.
C18_ThrownCallsFallBack ==
    \A p \in Runs :
        LET r == run[p]
        IN  /\ r.fn = "classify" =>
                  /\ \A j \in DOMAIN r.ops :
                        /\ r.ops[j].st # "rejected"
                        /\ r.ops[j].st = "fulfilled" =>
                              LET resp == r.ops[j].resp[1]
                                  persona == r.ops[j].val[1].persona
                              IN  /\ r.ops[j].val[1].lead = r.newLeads[j]
                                  /\ resp.kind = "throw" => persona = Persona("4")
                                  /\ resp.kind = "text" /\ Trim(resp.text) \in Personas
                                        => persona = Trim(resp.text)
                  /\ r.lpc # "thrown"
                  /\ r.fallbacks >= Cardinality({j \in DOMAIN r.ops :
                                        /\ r.ops[j].st = "fulfilled"
                                        /\ r.ops[j].resp[1].kind = "throw"})
                  /\ r.pc = "addLeadsToDatabase" =>
                        \A j \in DOMAIN r.ops : r.classifiedLeads[j] = r.ops[j].val[1]
            /\ r.pc = "done" =>
                  /\ r.exitCode = 0
                  /\ r.summary[1].processed
                        = IF r.insertOutcome = "ok" THEN Len(r.newLeads) ELSE 0

\* of three records the calls for the first and the third threw and the
\* second was answered "Persona 2": the insert is issued for Persona 4,
\* Persona 2, Persona 4
C18_Witness ==
    \E p \in Runs :
        /\ run[p].pc = "addLeadsToDatabase"
        /\ Len(run[p].classifiedLeads) = 3
        /\ run[p].ops[1].resp[1].kind = "throw"
        /\ run[p].ops[2].resp[1] = [kind |-> "text", text |-> Persona("2")]
        /\ run[p].ops[3].resp[1].kind = "throw"
        /\ run[p].classifiedLeads[1].persona = Persona("4")
        /\ run[p].classifiedLeads[2].persona = Persona("2")
        /\ run[p].classifiedLeads[3].persona = Persona("4")
        /\ run[p].fallbacks = 2

\* C19: in the summary persisted + skipped + failed inserts is the size of
\* the file read: after a successful insert persisted + skipped is the
\* total and no insert is reported failed; after a failed one persisted is
\* 0 and the failed inserts are the new records.
C19_SummaryAccountsForAll ==
    \A p \in Runs :
        run[p].pc = "done" =>
            LET m == run[p].summary[1]
            IN  /\ m.total = Len(run[p].csv)
                /\ m.processed + m.skipped + m.failedInserts = m.total
                /\ run[p].insertOutcome = "ok" =>
                      /\ m.failedInserts = 0
                      /\ m.processed + m.skipped = m.total
                      /\ m.processed = Len(run[p].newLeads)
                /\ run[p].insertOutcome # "ok" =>
                      /\ m.processed = 0
                      /\ m.failedInserts = Len(run[p].newLeads)

\* a file of two records, one of them stored before: skipped 1, persisted 1
C19_Witness ==
    \E p \in Runs :
        /\ run[p].pc = "done"
        /\ run[p].summary[1].total = 2
        /\ run[p].summary[1].skipped = 1
        /\ run[p].summary[1].processed = 1
        /\ run[p].summary[1].failedInserts = 0
        /\ run[p].dedupOutcome = "ok"

\* the chunk an item belongs to: items 1..K are chunk 0, and so on
ChunkOf(j, concurrency) == (j - 1) \div concurrency

\* C20: runWithConcurrency works through consecutive chunks of K items with
\* a barrier between them: an operation is started only when every
\* operation of every earlier chunk has completed, no operation is started
\* twice, and the operations of a chunk are started together, so that
\* whenever the limiter awaits a chunk all its operations are started.
C20_ChunkBarrier ==
    \A p \in Runs :
        LET r == run[p]
        IN  r.fn = "generic" =>
              /\ \A j \in DOMAIN r.ops :
                    /\ r.ops[j].n <= 1
                    /\ r.ops[j].st # "unstarted" =>
                          \A k \in DOMAIN r.ops :
                              /\ ChunkOf(k, r.concurrency) < ChunkOf(j, r.concurrency)
                                    => r.ops[k].st = "fulfilled"
                              /\ ChunkOf(k, r.concurrency) = ChunkOf(j, r.concurrency)
                                    => r.ops[k].st # "unstarted"
              /\ r.lpc = "await" =>
                    /\ Batch(r) # {}
                    /\ \A j \in Batch(r) : r.ops[j].st # "unstarted"
                    /\ \A j \in Batch(r) : ChunkOf(j, r.concurrency) * r.concurrency = r.i

\* four items with K = 2: the first chunk has completed, the second is
\* started and one of its operations is still pending
C20_Witness ==
    \E p \in Runs :
        /\ run[p].fn = "generic"
        /\ run[p].concurrency = 2
        /\ Len(run[p].items) = 4
        /\ run[p].ops[1].st = "fulfilled" /\ run[p].ops[2].st = "fulfilled"
        /\ run[p].ops[3].st = "fulfilled" /\ run[p].ops[4].st = "pending"
        /\ run[p].lpc = "await"

\* the record's email is not among those the store had at the query
IsNew(r, lead) == lead.Email \notin r.existingAtDedup

\* C21: when the existence query succeeded, newLeads is the subsequence,
\* in the order of the file, of the records whose email the store did not
\* return, and duplicateCount is the number of records whose email it did
\* return; two records of one file with the same email, unknown to the
\* store, are both in newLeads.
C21_NewLeadsIsSubsequence ==
    \A p \in Runs :
        run[p].dedupOutcome = "ok" =>
            LET r == run[p]
            IN  /\ r.newLeads = SelectSeq(r.leads, LAMBDA lead : IsNew(r, lead))
                /\ r.duplicateCount
                      = Cardinality({k \in 1..Len(r.leads) : ~IsNew(r, r.leads[k])})
                /\ \A k \in 1..Len(r.leads) :
                      IsNew(r, r.leads[k]) =>
                          \E m \in 1..Len(r.newLeads) : r.newLeads[m] = r.leads[k]

\* two records of one file share an email the store does not have: both
\* passed the filter
C21_Witness ==
    \E p \in Runs :
        /\ run[p].dedupOutcome = "ok"
        /\ Len(run[p].leads) = 2
        /\ run[p].leads[1].Email = run[p].leads[2].Email
        /\ run[p].newLeads = run[p].leads
        /\ run[p].duplicateCount = 0

\* in this step operation j of run p, launched by the limiter, completes
Settles(p, j) ==
    /\ run[p].fn \in {"classify", "deliver"}
    /\ run'[p].fn = run[p].fn
    /\ DOMAIN run'[p].ops = DOMAIN run[p].ops
    /\ run[p].ops[j].st = "pending"
    /\ run'[p].ops[j].st # "pending"

\* the step leaves alone every result slot but that of operation j, and
\* what the limiter and main keep
WritesOwnSlotOnly(p, j) ==
    /\ \A k \in DOMAIN run[p].ops \ {j} : run'[p].ops[k] = run[p].ops[k]
    /\ run'[p].results = run[p].results
    /\ run'[p].i = run[p].i
    /\ run'[p].items = run[p].items
    /\ run'[p].classifiedLeads = run[p].classifiedLeads
    /\ run'[p].dbResult = run[p].dbResult
    /\ store' = store

\* C22: no shared mutable state is written by the operations the limiter
\* runs concurrently: a classification or delivery operation that
\* completes writes its own result slot and no variable that its siblings
\* write, so successCount and failCount are not touched by it.
C22_NoSharedWrites ==
    [][\A p \in Runs : \A j \in DOMAIN run[p].ops :
          Settles(p, j) =>
              /\ WritesOwnSlotOnly(p, j)
              /\ run'[p].successCount = run[p].successCount
              /\ run'[p].failCount = run[p].failCount]_vars

\* C22 as the code has it: a completing classification operation writes
\* its own result slot only; a completing delivery operation writes its own
\* slot and adds one to exactly one of the two counters successCount and
\* failCount, which its siblings also write, in one step, so that no
\* update of a counter is lost.
C22_SharedWritesAreTheCounters ==
    [][\A p \in Runs : \A j \in DOMAIN run[p].ops :
          Settles(p, j) =>
              /\ WritesOwnSlotOnly(p, j)
              /\ run[p].fn = "classify" =>
                    /\ run'[p].successCount = run[p].successCount
                    /\ run'[p].failCount = run[p].failCount
              /\ run[p].fn = "deliver" =>
                    \/ /\ run'[p].successCount = run[p].successCount + 1
                       /\ run'[p].failCount = run[p].failCount
                    \/ /\ run'[p].successCount = run[p].successCount
                       /\ run'[p].failCount = run[p].failCount + 1]_vars

\* two delivery operations of one chunk have both added to successCount
\* while a third is still pending
C22_Witness ==
    \E p \in Runs :
        /\ run[p].fn = "deliver"
        /\ run[p].lpc = "await"
        /\ run[p].successCount = 2
        /\ run[p].ops[1].st = "fulfilled"
        /\ run[p].ops[2].st = "pending"
        /\ run[p].ops[3].st = "fulfilled"

\* no two rows of the store have the same email
StoreUnique == \A r1, r2 \in store : r1.email = r2.email => r1 = r2

\* in this step the insert of run p ends
InsertEndsFor(p) ==
    /\ run[p].pc = "addLeadsToDatabase"
    /\ run'[p].pc = "sendLeadsToWebhook"

\* C23: with two runs at the same time over files that share an email,
\* the store never holds two rows of one email; when the insert of a run
\* ends and its rows break the uniqueness of the store, none of its rows
\* is stored, the conflicting and the others alike, the run gets
\* {success: false, count: 0}, and it goes on to deliver all its classified
\* records: at its summary it has sent one webhook call for each.
C23_RaceKeepsStoreUnique ==
    /\ [](StoreUnique
           /\ \A p \in Runs :
                 run[p].pc = "done" /\ ~run[p].dbResult[1].success =>
                     /\ Len(run[p].posts) = Len(run[p].classifiedLeads)
                     /\ run[p].summary[1].processed = 0
                     /\ run[p].summary[1].failedInserts = Len(run[p].newLeads))
    /\ [][\A p \in Runs :
             InsertEndsFor(p) /\ UniqueViolation(Rows(run[p].classifiedLeads)) =>
                 /\ store' = store
                 /\ run'[p].dbResult = <<[success |-> FALSE, count |-> 0]>>
                 /\ run'[p].items = run[p].classifiedLeads]_vars

\* both runs found the email b@x.io new in a successful existence query;
\* one stored it; the other, whose file has a second, new email as well,
\* got nothing stored, not even that second record, and delivered both
C23_Witness ==
    \E p, q \in Runs :
        /\ p # q
        /\ run[p].dedupOutcome = "ok" /\ run[q].dedupOutcome = "ok"
        /\ run[p].newLeads = <<Lead("b@x.io", 1)>>
        /\ run[q].newLeads = <<Lead("a@x.io", 1), Lead("b@x.io", 2)>>
        /\ run[p].insertOutcome = "ok"
        /\ run[q].pc = "done"
        /\ run[q].dbResult = <<[success |-> FALSE, count |-> 0]>>
        /\ StoreEmails = {"b@x.io"}
        /\ Len(run[q].posts) = 2
        /\ run[q].acked = 2

----------------------------------------------------------------------------
(* Termination.  Every external call eventually returns or throws, and
   the event loop runs every continuation that is ready: each step that
   is possible is eventually taken.  The runs of main and the runs of the
   limiter on its own are taken together. *)

InitFair ==
    \/ InitMain(UNION {Batches(n) : n \in 0..FairLeads})
    \/ InitCall(FairItems, FairK)

NextFair ==
    \E p \in Runs :
        \/ ReadCSV(p)
        \/ FilterDuplicates(p)
        \/ RWCLoop(p)
        \/ ClassifySettle(p)
        \/ GenericSettle(p)
        \/ RWCResume(p)
        \/ AddLeadsToDatabase(p)
        \/ InsertEnds(p)
        \/ WebhookSettle(p)
        \/ Summarize(p)

SpecFair == InitFair /\ [][NextFair]_vars /\ WF_vars(NextFair)

\* ceil(n / k)
CeilDiv(n, k) == (n + k - 1) \div k

\* the run is over: main at its summary, at the short circuit or at the
\* fatal exit; the limiter on its own returned or thrown
Over(r) ==
    \/ r.pc = "off"
    \/ Ended(r)
    \/ r.pc = "limiter" /\ r.lpc \in {"returned", "thrown"}

\* the three ends of main are told apart by what the run leaves behind
EndsOneWay(r) ==
    /\ r.pc = "done" => r.summary # <<>> /\ r.exitCode = 0
    /\ r.pc = "nothing" => r.summary = <<>> /\ r.exitCode = 0 /\ r.newLeads = <<>>
    /\ r.pc = "fatal" => r.summary = <<>> /\ r.exitCode = 1

\* the limiter has started whole chunks only, each once, i is K times the
\* number of chunks done, and at its return that number is ceil(N / K)
ChunksCounted(r) ==
    r.fn # "none" =>
        /\ r.concurrency >= 1
        /\ r.i % r.concurrency = 0
        /\ r.i <= r.concurrency * CeilDiv(Len(r.items), r.concurrency)
        /\ \A j \in DOMAIN r.ops :
              r.ops[j].n = IF ChunkOf(j, r.concurrency) * r.concurrency < r.i
                              \/ (ChunkOf(j, r.concurrency) * r.concurrency = r.i
                                  /\ r.lpc \in {"await", "thrown"})
                           THEN 1 ELSE 0
        /\ r.lpc = "returned" =>
              r.i = r.concurrency * CeilDiv(Len(r.items), r.concurrency)

\* C24: when every external call eventually returns or throws and K >= 1,
\* every run of main eventually is, and stays, at one of its three ends:
\* the summary, the short circuit, or the fatal exit; runWithConcurrency
\* advances i by K per chunk, starts each chunk once, and returns after
\* ceil(N / K) chunks.
C24_Terminates ==
    /\ <>[](\A p \in Runs : Over(run[p]))
    /\ [](\A p \in Runs : EndsOneWay(run[p]) /\ ChunksCounted(run[p]))

\* the limiter returned after two chunks, of two items and of one
C24_Witness ==
    \E p \in Runs :
        /\ run[p].pc = "limiter"
        /\ run[p].lpc = "returned"
        /\ Len(run[p].items) = 3
        /\ run[p].concurrency = 2
        /\ run[p].i = 4
        /\ Len(run[p].results) = 3

----------------------------------------------------------------------------
(* The sequential pipeline, src/src/index.js: main reads the file and
   runs processLead on one lead after the other. *)

Call(op, k) == [op |-> op, k |-> k]

NoFacts ==
    [duplicate |-> <<>>, dbSuccess |-> <<>>, webhookSuccess |-> <<>>, status |-> <<>>]

\* .eq('email', email).single() ends with the row, with PGRST116 for no
\* row, with another error, or with an exception
LookupOutcomes == {"row", "norow", "error", "throw"}

\* isDuplicate: false on an error other than PGRST116 and in the catch,
\* else data !== null
IsDuplicate(outcome) ==
    IF outcome = "error" THEN FALSE
    ELSE IF outcome = "throw" THEN FALSE
    ELSE outcome = "row"

\* a processLead that goes on to the webhook whatever the insert returned
ProcessLeadIgnoresDbSuccess(dbSuccess) == "sendToWebhook"

\* if (!dbSuccess) return { status: 'failed', ... }; else sendToWebhook
ProcessLeadAfterInsert(dbSuccess) ==
    IF ~dbSuccess THEN "failed" ELSE "sendToWebhook"

\* the if / else if chain of the loop of main over result.status
Tally(results, result) ==
    IF result.status = "skipped" THEN [results EXCEPT !.skipped = @ + 1]
    ELSE IF result.status = "failed" THEN [results EXCEPT !.failed = @ + 1]
    ELSE IF result.status = "success"
    THEN [results EXCEPT !.processed = @ + 1,
                         !.byPersona = Incremented(@, result.persona)]
    ELSE results

\* processLead returns result for lead i + 1; main tallies it and goes to
\* the next lead
Returned(r, result) ==
    [r EXCEPT !.index.results = Tally(@, result),
              !.index.facts[r.index.i + 1].status = <<result.status>>,
              !.index.i = @ + 1,
              !.index.persona = <<>>,
              !.pc = "index.for"]

IndexReadCSV(p) ==
    /\ run[p].pc = "index.start"
    /\ \E readable \in BOOLEAN :
          run' = [run EXCEPT ![p] =
              IF readable
              THEN [run[p] EXCEPT !.leads = run[p].csv, !.pc = "index.for"]
              ELSE [run[p] EXCEPT !.pc = "fatal", !.exitCode = 1]]
    /\ UNCHANGED store

\* for (let i = 0; i < leads.length; i++): processLead is called and asks
\* the store for the lead's email; after the last lead the summary
IndexFor(p) ==
    /\ run[p].pc = "index.for"
    /\ run' = [run EXCEPT ![p] =
          IF run[p].index.i < Len(run[p].leads)
          THEN [run[p] EXCEPT !.index.calls = Append(@, Call("select", run[p].index.i + 1)),
                              !.index.facts = Append(@, NoFacts),
                              !.pc = "index.isDuplicate"]
          ELSE [run[p] EXCEPT !.pc = "index.done"]]
    /\ UNCHANGED store

IsDuplicateEnds(p) ==
    /\ run[p].pc = "index.isDuplicate"
    /\ \E outcome \in LookupOutcomes :
          LET r == run[p]
              k == r.index.i + 1
              duplicate == IsDuplicate(outcome)
              known == [r EXCEPT !.index.facts[k].duplicate = <<duplicate>>]
          IN  /\ outcome = "row" => r.leads[k].Email \in StoreEmails
              /\ outcome = "norow" => r.leads[k].Email \notin StoreEmails
              /\ run' = [run EXCEPT ![p] =
                    IF duplicate
                    THEN Returned(known, [status |-> "skipped"])
                    ELSE [known EXCEPT !.index.calls = Append(@, Call("classify", k)),
                                       !.pc = "index.classifyLead"]]
    /\ UNCHANGED store

ClassifyLeadEnds(p) ==
    /\ run[p].pc = "index.classifyLead"
    /\ \E resp \in Responses :
          run' = [run EXCEPT ![p] =
              [run[p] EXCEPT !.index.persona = <<ClassifyLead(resp)>>,
                             !.index.calls = Append(@, Call("insert", run[p].index.i + 1)),
                             !.pc = "index.addLeadToDatabase"]]
    /\ UNCHANGED store

AddLeadToDatabaseEnds(p) ==
    /\ run[p].pc = "index.addLeadToDatabase"
    /\ \E outcome \in InsertOutcomes :
          LET r == run[p]
              k == r.index.i + 1
              row == StoredRow([lead |-> r.leads[k], persona |-> r.index.persona[1]])
              dbSuccess == outcome = "ok"
              known == [r EXCEPT !.index.facts[k].dbSuccess = <<dbSuccess>>]
          IN  /\ outcome = "ok" => ~UniqueViolation(<<row>>)
              /\ store' = IF outcome = "ok" THEN store \cup {row} ELSE store
              /\ run' = [run EXCEPT ![p] =
                    IF ProcessLeadAfterInsert(dbSuccess) = "failed"
                    THEN Returned(known, [status |-> "failed"])
                    ELSE [known EXCEPT !.index.calls = Append(@, Call("post", k)),
                                       !.pc = "index.sendToWebhook"]]

SendToWebhookEnds(p) ==
    /\ run[p].pc = "index.sendToWebhook"
    /\ \E resp \in WebhookResponses :
          LET r == run[p]
              k == r.index.i + 1
              webhookSuccess == Delivered(resp)
          IN  run' = [run EXCEPT ![p] =
                  Returned([r EXCEPT !.index.facts[k].webhookSuccess = <<webhookSuccess>>],
                           [status |-> "success", persona |-> r.index.persona[1]])]
    /\ UNCHANGED store

InitSequential ==
    \E n \in 0..SequentialLeads : \E csv \in Batches(n) : \E rows \in InitialStores :
        /\ store = rows
        /\ run = [p \in Runs |->
                    IF p = 1 THEN NewRun("index.start", csv) ELSE NewRun("off", <<>>)]

NextSequential ==
    \E p \in Runs :
        \/ IndexReadCSV(p)
        \/ IndexFor(p)
        \/ IsDuplicateEnds(p)
        \/ ClassifyLeadEnds(p)
        \/ AddLeadToDatabaseEnds(p)
        \/ SendToWebhookEnds(p)

SpecSequential == InitSequential /\ [][NextSequential]_vars

\* the calls made for lead k, in the order they were made
CallsFor(r, k) == SelectSeq(r.index.calls, LAMBDA c : c.k = k)

\* the leads that processLead has returned for with the status
WithStatus(r, status) ==
    {k \in 1..Len(r.index.facts) : r.index.facts[k].status = <<status>>}

Chain == <<"select", "classify", "insert", "post">>

====
